---------------------------- MODULE Spec2Model ----------------------------
(***************************************************************************)
(* A model of intime's Window Event Processor: the processing loop that    *)
(* consumes focus notifications, the application registry                  *)
(* (find_or_create_app), the screenshot scheduler task with its abort      *)
(* semantics, the close handler of the presentation shell, and the two     *)
(* read queries of the persistence layer.                                  *)
(*                                                                         *)
(* Time is counted in whole seconds.  The created_at columns hold SQLite   *)
(* datetime text 'YYYY-MM-DD HH:MM:SS'; that text orders exactly as the    *)
(* epoch second it denotes, so a column value is kept as its epoch second. *)
(***************************************************************************)
EXTENDS Integers, Sequences, FiniteSets, TLC

(***************************************************************************)
(* Bounds of the model.                                                    *)
(***************************************************************************)
\* notifications the adapter sends in the registry scenario
MaxRegNotifs == 2
\* steps of the environment in the scheduler scenario: notifications the
\* adapter sends plus steps of the clock
MaxSchedSteps == 3
\* statements that fail (database locked or unavailable) in the registry scenario
MaxRegFaults == 1
\* seconds the clock advances in the registry scenario
MaxRegTime == 1
\* screenshot rows inserted in the screenshot-query scenario
MaxShots == 3
\* steps of the clock in the capture scenario
MaxCaptureTicks == 4
\* screenshot rows inserted in the image-read scenario
MaxBlobs == 2
\* window_event rows inserted in the event-query scenario
MaxEvents == 2
\* seconds the clock advances in the query scenarios
MaxQTime == 3
\* largest LIMIT tried (the smallest is -1, SQLite's "no limit")
MaxLimit == 2

(***************************************************************************)
(* Program constants.                                                      *)
(***************************************************************************)
\* EVENT_SYSTEM_FOREGROUND, the code of WindowForegroundEvent::event()
EVENT_SYSTEM_FOREGROUND == 3
\* the event code the close handler builds its WindowEventType from
CLOSE_EVENT_CODE == 99999
\* get_or_create_system_app's fallback application id
FALLBACK_APP_ID == 1

(***************************************************************************)
(* Values.                                                                 *)
(***************************************************************************)
SystemName == "System"
SystemPath == "system://application"
ClosingTitle == "Application Closing"
\* Option::None of an application row
NoApp == [id |-> 0, name |-> "", path |-> ""]
\* Option::None of a notification
NoEvent == [kind |-> "none", name |-> "", path |-> "", title |-> "", hwnd |-> 0, seq |-> 0]
\* Option::None of a screenshot row
NoShot == [id |-> 0, app_id |-> 0, created_at_sec |-> -1, png |-> <<>>]
\* Option::None of the app_id filter
NoAppId == 0

Max(a, b) == IF a >= b THEN a ELSE b
Abs(x) == IF x < 0 THEN -x ELSE x
Range(s) == {s[i] : i \in 1..Len(s)}

(***************************************************************************)
(* The application table: a set of rows [id, name, path] (icon is NULL in  *)
(* every row this core writes and is left out).                            *)
(***************************************************************************)
\* the rowid SQLite assigns to the next inserted row
NextId(tbl) == IF tbl = {} THEN 1
               ELSE 1 + (CHOOSE m \in {r.id : r \in tbl} : \A r \in tbl : r.id <= m)

\* a mutant of NameUnique: the column is not declared UNIQUE
NameUniqueDropped(tbl, name) == TRUE

\* schema: application.name is UNIQUE
NameUnique(tbl, name) == \A r \in tbl : r.name # name

\* schema: focus_event.app_id and screenshot.app_id reference application.id
ForeignKeyOk(tbl, app_id) == \E r \in tbl : r.id = app_id

\* SELECT id, name, path, icon FROM app WHERE name = ?  (.ok().flatten():
\* a failed read gives None, as an absent name does)
get_saved_app(tbl, name, dbOk) ==
    IF dbOk /\ (\E r \in tbl : r.name = name)
    THEN CHOOSE r \in tbl : r.name = name /\ (\A q \in tbl : q.name = name => r.id <= q.id)
    ELSE NoApp

\* a mutant of create_app: INSERT OR REPLACE INTO app (name, path, icon), which
\* deletes the row of that name and inserts a new one under a new id
create_app_or_replace(tbl, name, path, dbOk) ==
    IF dbOk
    THEN [ok |-> TRUE,
          tbl |-> {r \in tbl : r.name # name}
                  \cup {[id |-> NextId(tbl), name |-> name, path |-> path]}]
    ELSE [ok |-> FALSE, tbl |-> tbl]

\* INSERT INTO app (name, path, icon) VALUES (?, ?, ?)
create_app(tbl, name, path, dbOk) ==
    IF dbOk /\ NameUnique(tbl, name)
    THEN [ok |-> TRUE, tbl |-> tbl \cup {[id |-> NextId(tbl), name |-> name, path |-> path]}]
    ELSE [ok |-> FALSE, tbl |-> tbl]

\* a mutant of update_app_path: the two bind parameters are swapped, so no row
\* matches and the statement succeeds without updating anything
update_app_path_swapped(tbl, name, new_path, dbOk) ==
    IF dbOk
    THEN [ok |-> TRUE,
          tbl |-> {IF r.name = new_path THEN [r EXCEPT !.path = name] ELSE r : r \in tbl}]
    ELSE [ok |-> FALSE, tbl |-> tbl]

\* a mutant of update_app_path: INSERT OR REPLACE INTO app (name, path), which
\* deletes the row of that name and inserts a new one under a new id
update_app_path_replaces(tbl, name, new_path, dbOk) ==
    IF dbOk
    THEN [ok |-> TRUE,
          tbl |-> {r \in tbl : r.name # name}
                  \cup {[id |-> NextId(tbl), name |-> name, path |-> new_path]}]
    ELSE [ok |-> FALSE, tbl |-> tbl]

\* UPDATE app SET path = ? WHERE name = ?
update_app_path(tbl, name, new_path, dbOk) ==
    IF dbOk
    THEN [ok |-> TRUE,
          tbl |-> {IF r.name = name THEN [r EXCEPT !.path = new_path] ELSE r : r \in tbl}]
    ELSE [ok |-> FALSE, tbl |-> tbl]

\* a mutant of DebugFmt: the arm of EVENT_SYSTEM_FOREGROUND is missing
DebugFmtNoForeground(event_code) ==
    CASE event_code = 32780 -> "EVENT_SYSTEM_NAMECHANGE"
      [] event_code = 32768 -> "EVENT_OBJECT_CREATE"
      [] event_code = 32769 -> "EVENT_OBJECT_DESTROY"
      [] OTHER              -> "fmt::Error"

\* impl Debug for WindowEventType: the name of a known code, fmt::Error otherwise
DebugFmt(event_code) ==
    CASE event_code = 32780 -> "EVENT_SYSTEM_NAMECHANGE"
      [] event_code = 3     -> "EVENT_SYSTEM_FOREGROUND"
      [] event_code = 32768 -> "EVENT_OBJECT_CREATE"
      [] event_code = 32769 -> "EVENT_OBJECT_DESTROY"
      [] event_code = 32771 -> "EVENT_OBJECT_HIDE"
      [] event_code = 23    -> "EVENT_SYSTEM_MINIMIZEEND"
      [] event_code = 22    -> "EVENT_SYSTEM_MINIMIZESTART"
      [] event_code = 32773 -> "EVENT_OBJECT_FOCUS"
      [] OTHER              -> "fmt::Error"

\* a mutant of create_window_event: INSERT OR REPLACE with the rowid of the
\* last row, which overwrites it
create_window_event_overwrites(log, tbl, app_id, title, event_code, clock, dbOk) ==
    LET row == [app_id |-> app_id, window_title |-> title,
                event_type |-> DebugFmt(event_code), created_at |-> clock]
    IN IF dbOk /\ ForeignKeyOk(tbl, app_id)
       THEN [ok |-> TRUE, panicked |-> FALSE,
             log |-> IF log = <<>> THEN <<row>> ELSE [log EXCEPT ![Len(log)] = row]]
       ELSE [ok |-> FALSE, panicked |-> FALSE, log |-> log]

\* INSERT INTO window_event (app_id, window_title, event_type): created_at
\* defaults to the current second.  format!("{:?}", event) panics on fmt::Error.
create_window_event(log, tbl, app_id, title, event_code, clock, dbOk) ==
    IF DebugFmt(event_code) = "fmt::Error"
    THEN [ok |-> FALSE, panicked |-> TRUE, log |-> log]
    ELSE IF dbOk /\ ForeignKeyOk(tbl, app_id)
    THEN [ok |-> TRUE, panicked |-> FALSE,
          log |-> Append(log, [app_id |-> app_id, window_title |-> title,
                               event_type |-> DebugFmt(event_code), created_at |-> clock])]
    ELSE [ok |-> FALSE, panicked |-> FALSE, log |-> log]

\* let screenshot_interval = Duration::from_secs(10)
ScreenshotInterval == 10
\* the window identifiers of the model
Windows == {1, 2}
\* Option::None of a last-capture instant
NoInstant == -1

VARIABLES
    apps,       \* table app
    events,     \* table window_event, in insertion order
    shots,      \* table screenshot
    chan,       \* the mpsc channel from the hook callback to the loop
    sent,       \* notifications sent so far
    faults,     \* database statements and file writes that may still fail
    now,        \* the clock, in seconds
    lpc,        \* where the processing loop is
    ev,         \* the notification being handled
    found,      \* find_or_create_app: the row its first lookup returned
    res,        \* find_or_create_app: the application it resolved, NoApp on Err
    call,       \* the resolve call in progress (history)
    calls,      \* the resolve calls that returned (history)
    appends,    \* the register_window_event calls made, in order (history)
    cpc,        \* where the close handler is
    capp,       \* the application id the close handler attributes its event to
    cur,        \* current_foreground_window_hwnd, 0 for None
    handle,     \* screenshot_handle: the index of its task, 0 for None
    instants,   \* screenshot_instants: window -> last-capture instant
    tasks,      \* every scheduler task spawned so far, in spawn order
    files,      \* the image files written, in order (history)
    captured,   \* window -> the instant screenshot_window was last started for it (history)
    lock,       \* the task that holds the mutex of screenshot_instants, 0 when it is free
    qin,        \* the input of the last query
    qev,        \* the result of the last range query
    qshot,      \* the result of the last nearest-screenshot query
    hook,       \* the message-loop thread: "unset", "set" (pumping) or "invalid" (panicked)
    rx,         \* the receiving end of the channel is alive
    proc        \* the process: "running", "stopping" (runtime shutting down) or "exited"

dbvars == <<apps, events, shots>>
loopvars == <<chan, sent, lpc, ev, found, res, call, calls, appends>>
closevars == <<cpc, capp>>
schedvars == <<cur, handle, instants, tasks, files, captured, lock>>
queryvars == <<qin, qev, qshot>>
hostvars == <<hook, rx, proc>>
vars == <<apps, events, shots, chan, sent, faults, now, lpc, ev, found, res, call, calls, appends,
          cpc, capp, cur, handle, instants, tasks, files, captured, lock, qin, qev, qshot,
          hook, rx, proc>>

\* the outcomes a database statement (or a file write) can have now
Outcomes == IF faults > 0 THEN {TRUE, FALSE} ELSE {TRUE}
Fault(ok) == faults' = IF ok THEN faults ELSE faults - 1

NoCall == [name |-> "", path |-> "", pre |-> NoApp, wrote |-> "none", seq |-> 0]
NoQuery == [q |-> "none", a |-> 0, b |-> 0, c |-> 0]

\* WindowEventProcessor::new and start(): an empty database, nothing sent, the
\* channel created and the loop's task spawned
InitProcessor ==
    /\ apps = {} /\ events = <<>> /\ shots = {}
    /\ chan = <<>> /\ sent = 0 /\ now = 0
    /\ lpc = "recv" /\ ev = NoEvent /\ found = NoApp /\ res = NoApp
    /\ call = NoCall /\ calls = <<>> /\ appends = <<>>
    /\ cpc = "idle" /\ capp = 0
    /\ cur = 0 /\ handle = 0
    /\ instants = [w \in Windows |-> NoInstant]
    /\ tasks = <<>> /\ files = <<>>
    /\ captured = [w \in Windows |-> NoInstant]
    /\ lock = 0
    /\ qin = NoQuery /\ qev = <<>> /\ qshot = NoShot
    /\ rx = TRUE /\ proc = "running"

\* the processor once its hook is installed and its thread pumps messages
InitCore == InitProcessor /\ hook = "set"

(***************************************************************************)
(* The adapter: win_event_hook_callback sends one notification.            *)
(***************************************************************************)
ForegroundEvent(name, path, hwnd) ==
    [kind |-> "foreground", name |-> name, path |-> path, title |-> "t", hwnd |-> hwnd,
     seq |-> 0]
OtherEvent == [kind |-> "other", name |-> "", path |-> "", title |-> "", hwnd |-> 0, seq |-> 0]

\* WINDOW_CHANGE_SENDER holds a sender from set_win_event_hook on
Registered == hook # "unset"

\* a mutant of send_window_info: sender.send(info).unwrap(), the callback
\* panics when the receiver is gone
send_window_info_unwrap(n) ==
    /\ sent' = sent + 1
    /\ IF Registered /\ rx
       THEN chan' = Append(chan, [n EXCEPT !.seq = sent + 1]) /\ hook' = hook
       ELSE chan' = chan /\ hook' = "panicked"
    /\ UNCHANGED <<dbvars, faults, now, lpc, ev, found, res, call, calls, appends, closevars,
                   schedvars, queryvars, rx, proc>>

\* if let Some(sender) = &*cell.borrow() { let _ = sender.send(info); }: the
\* send on the unbounded channel returns at once, and its Err (receiver gone)
\* is ignored.  sent counts the calls; seq numbers the notifications in the
\* order they are sent (history)
send_window_info(n) ==
    /\ sent' = sent + 1
    /\ chan' = IF Registered /\ rx THEN Append(chan, [n EXCEPT !.seq = sent + 1]) ELSE chan
    /\ UNCHANGED <<dbvars, faults, now, lpc, ev, found, res, call, calls, appends, closevars,
                   schedvars, queryvars, hostvars>>

(***************************************************************************)
(* The processing loop, one action per await point.                        *)
(***************************************************************************)
\* process_events: try_recv on an empty channel, then sleep 50 ms
PollEmpty ==
    /\ lpc = "recv" /\ chan = <<>>
    /\ lpc' = "sleep"
    /\ UNCHANGED <<dbvars, chan, sent, faults, now, ev, found, res, call, calls, appends,
                   closevars, hostvars, schedvars, queryvars>>

PollWake ==
    /\ lpc = "sleep"
    /\ lpc' = "recv"
    /\ UNCHANGED <<dbvars, chan, sent, faults, now, ev, found, res, call, calls, appends,
                   closevars, hostvars, schedvars, queryvars>>

\* a mutant of try_recv: the newest message of the channel is taken first
try_recv_newest(ch) == [msg |-> ch[Len(ch)], rest |-> SubSeq(ch, 1, Len(ch) - 1)]

\* a mutant of try_recv: the message is read and left in the channel
try_recv_peek(ch) == [msg |-> Head(ch), rest |-> ch]

\* msg_receiver.try_recv() on a channel that holds a message: the oldest one
try_recv(ch) == [msg |-> Head(ch), rest |-> Tail(ch)]

\* a mutant of IsForeground: every notification is taken for a foreground one
IsForegroundAny(msg) == TRUE

\* event.as_any().downcast_ref::<WindowForegroundEvent>() is Some
IsForeground(msg) == msg.kind = "foreground"

\* process_events + handle_window_event: receive and dispatch by kind
Receive ==
    /\ lpc = "recv" /\ chan # <<>>
    /\ chan' = try_recv(chan).rest
    /\ IF IsForeground(try_recv(chan).msg)
       THEN ev' = try_recv(chan).msg /\ lpc' = "lookup"
       ELSE ev' = ev /\ lpc' = "recv"
    /\ UNCHANGED <<dbvars, sent, faults, now, found, res, call, calls, appends, closevars, hostvars,
                   schedvars, queryvars>>

\* the row stored for a name, NoApp when there is none
Stored(tbl, name) == get_saved_app(tbl, name, TRUE)

\* find_or_create_app returns: the call is logged
Returned(c, okv, app, tbl) ==
    Append(calls, [name |-> c.name, path |-> c.path, pre |-> c.pre, wrote |-> c.wrote,
                   seq |-> c.seq, ok |-> okv, id |-> app.id, retpath |-> app.path,
                   post |-> Stored(tbl, c.name)])

\* a mutant of PathChanged: the path is rewritten on every lookup
PathChangedAlways(app, event) == TRUE

\* if app.path != event.path
PathChanged(app, event) == app.path # event.path

\* find_or_create_app: the first get_saved_app and the comparison of paths
Lookup ==
    /\ lpc = "lookup"
    /\ \E ok \in Outcomes :
        LET app == get_saved_app(apps, ev.name, ok)
            c == [name |-> ev.name, path |-> ev.path, pre |-> Stored(apps, ev.name),
                  wrote |-> "none", seq |-> ev.seq]
        IN /\ Fault(ok)
           /\ found' = app
           /\ IF app = NoApp
              THEN lpc' = "insert" /\ res' = NoApp /\ call' = c /\ calls' = calls
              ELSE IF PathChanged(app, ev)
              THEN lpc' = "update" /\ res' = NoApp /\ call' = c /\ calls' = calls
              ELSE /\ lpc' = "append" /\ res' = app /\ call' = NoCall
                   /\ calls' = Returned(c, TRUE, app, apps)
    /\ UNCHANGED <<dbvars, chan, sent, now, ev, appends, closevars, hostvars, schedvars, queryvars>>

\* a mutant of after_match: the Err arm returns from the handler
after_match_returns(arm) == IF arm = "Err" THEN "recv" ELSE "reconcile"

\* match self.find_or_create_app(event).await { Ok(app) => { ... } Err(e) =>
\* { eprintln!(...) } }: both arms fall through to the comparison of windows
after_match(arm) == "reconcile"

\* find_or_create_app: update_app_path(...).await? and Ok(updated_app)
UpdatePath ==
    /\ lpc = "update"
    /\ \E ok \in Outcomes :
        LET r == update_app_path(apps, ev.name, ev.path, ok)
            updated_app == [id |-> found.id, name |-> found.name, path |-> ev.path]
            c == [call EXCEPT !.wrote = IF r.ok THEN "update" ELSE "none"]
        IN /\ Fault(ok)
           /\ apps' = r.tbl
           /\ IF r.ok
              THEN lpc' = "append" /\ res' = updated_app
                   /\ calls' = Returned(c, TRUE, updated_app, r.tbl)
              ELSE lpc' = after_match("Err") /\ res' = NoApp
                   /\ calls' = Returned(c, FALSE, NoApp, r.tbl)
    /\ call' = NoCall
    /\ UNCHANGED <<events, shots, chan, sent, now, ev, found, appends, closevars, hostvars, schedvars,
                   queryvars>>

\* find_or_create_app: save_app(...).await?
InsertApp ==
    /\ lpc = "insert"
    /\ \E ok \in Outcomes :
        LET r == create_app(apps, ev.name, ev.path, ok)
            c == [call EXCEPT !.wrote = IF r.ok THEN "insert" ELSE "none"]
        IN /\ Fault(ok)
           /\ apps' = r.tbl
           /\ IF r.ok
              THEN lpc' = "reread" /\ call' = c /\ calls' = calls
              ELSE lpc' = after_match("Err") /\ call' = NoCall
                   /\ calls' = Returned(c, FALSE, NoApp, r.tbl)
    /\ res' = NoApp
    /\ UNCHANGED <<events, shots, chan, sent, now, ev, found, appends, closevars, hostvars, schedvars,
                   queryvars>>

\* a mutant of ok_or_failed: when the re-read finds nothing the application is
\* returned as it was built for the insert, without an id
ok_or_unsaved(app, event) ==
    IF app = NoApp THEN [id |-> 0, name |-> event.name, path |-> event.path] ELSE app

\* .ok_or(anyhow!("Failed to save app"))?: nothing re-read is an Err (NoApp)
ok_or_failed(app, event) == app

\* find_or_create_app: the re-read after the insert, ok_or(...)?
Reread ==
    /\ lpc = "reread"
    /\ \E ok \in Outcomes :
        LET app == ok_or_failed(get_saved_app(apps, ev.name, ok), ev)
        IN /\ Fault(ok)
           /\ res' = app
           /\ calls' = Returned(call, app # NoApp, app, apps)
           /\ lpc' = IF app # NoApp THEN "append" ELSE after_match("Err")
    /\ call' = NoCall
    /\ UNCHANGED <<dbvars, chan, sent, now, ev, found, appends, closevars, hostvars, schedvars,
                   queryvars>>

\* handle_foreground_event, Ok(app): register_window_event(pool, app.id.unwrap(),
\* title, event.event()), its result ignored (an id read from the table is
\* never None); a panic inside the call would end the loop's task
AppendEvent ==
    /\ lpc = "append"
    /\ \E ok \in Outcomes :
        LET r == create_window_event(events, apps, res.id, ev.title,
                                     EVENT_SYSTEM_FOREGROUND, now, ok)
        IN /\ Fault(ok)
           /\ events' = r.log
           /\ appends' = Append(appends, [seq |-> ev.seq, app_id |-> res.id, name |-> ev.name,
                                           ok |-> r.ok, row |-> Len(r.log)])
           /\ lpc' = IF r.panicked THEN "panicked" ELSE after_match("Ok")
    /\ UNCHANGED <<apps, shots, chan, sent, now, ev, found, res, call, calls, closevars, hostvars,
                   schedvars, queryvars>>

(***************************************************************************)
(* The screenshot scheduler.  A task is [hwnd, name, pc, aborted, wake,    *)
(* img, woke] (woke: its sleep has just elapsed, history).  Its pc is "spawned" (not polled yet), "check", "remaining",      *)
(* "store", "record" (running code between two awaits), "capture",         *)
(* "woken", "sleep" (suspended at an await) or "dead".                     *)
(***************************************************************************)
NewTask(hwnd, name) ==
    [hwnd |-> hwnd, name |-> name, pc |-> "spawned", aborted |-> FALSE, wake |-> 0,
     img |-> "none", woke |-> FALSE]

Suspended(t) == t.pc \in {"spawned", "capture", "woken", "sleep"}

\* a task reaches an await that returns Pending: a cancelled task is dropped there
Dead(t) == [t EXCEPT !.pc = "dead", !.wake = 0, !.img = "none", !.woke = FALSE]
Yield(t, pc) == IF t.aborted THEN Dead(t) ELSE [t EXCEPT !.pc = pc]

\* a mutant of AbortTask: the previous handle is dropped without abort()
AbortTaskForgotten(ts, h) == ts

\* if let Some(handle) = self.screenshot_handle.take() { handle.abort(); }
\* abort() drops a suspended task at once; a task that is running is only marked
\* and is dropped when it next yields
AbortTask(ts, h) ==
    IF h = 0 \/ ts[h].pc = "dead" THEN ts
    ELSE IF Suspended(ts[h]) THEN [ts EXCEPT ![h] = Dead([ts[h] EXCEPT !.aborted = TRUE])]
    ELSE [ts EXCEPT ![h].aborted = TRUE]

\* a mutant of SpawnTask: the new task is bound to the window tracked before
SpawnTaskStale(ts, hwnd, name) == Append(ts, NewTask(IF cur # 0 THEN cur ELSE hwnd, name))

\* schedule_screenshot: tokio::task::spawn of the capture loop
SpawnTask(ts, hwnd, name) == Append(ts, NewTask(hwnd, name))

\* a mutant of WindowChanged: every foreground notification counts as a change
WindowChangedAlways(c, event) == TRUE

\* if self.current_foreground_window_hwnd != Some(event.hwnd())
WindowChanged(c, event) == c # event.hwnd

\* a mutant of abort_returns: the loop joins a task whose capture is in flight
abort_joins_capture(ts, h) == IF h = 0 THEN TRUE ELSE ts[h].pc # "capture"

\* handle.abort() only marks the task for cancellation and returns
abort_returns(ts, h) == TRUE

\* handle_foreground_event, after the match: cancel and restart on a window change
Reconcile ==
    /\ lpc = "reconcile"
    /\ IF WindowChanged(cur, ev)
       THEN /\ abort_returns(tasks, handle)
            /\ cur' = ev.hwnd
            /\ tasks' = SpawnTask(AbortTask(tasks, handle), ev.hwnd, ev.name)
            /\ handle' = Len(tasks) + 1
       ELSE UNCHANGED <<cur, tasks, handle>>
    /\ lpc' = "recv"
    /\ UNCHANGED <<dbvars, chan, sent, faults, now, ev, found, res, call, calls, appends,
                   closevars, hostvars, instants, files, captured, lock, queryvars>>

\* a mutant of should_take_screenshot: the elapsed time is not looked at
should_take_screenshot_always(hwnd) == TRUE

\* last_time.elapsed() >= screenshot_interval, true when the window has no entry
should_take_screenshot(hwnd) ==
    IF instants[hwnd] # NoInstant
    THEN now - instants[hwnd] >= ScreenshotInterval
    ELSE TRUE

\* screenshot_interval.saturating_sub(last_time.elapsed()), the whole interval
\* when the window has no entry
get_remaining_time(hwnd) ==
    IF instants[hwnd] # NoInstant
    THEN Max(ScreenshotInterval - (now - instants[hwnd]), 0)
    ELSE ScreenshotInterval

TaskStep(i) ==
    UNCHANGED <<dbvars, loopvars, closevars, hostvars, now, cur, handle, queryvars>>

\* a mutant of drop_guard: the MutexGuard is kept alive past the statement
drop_guard_kept(l) == l

\* the MutexGuard goes out of scope: the mutex is free again
drop_guard(l) == 0

\* screenshot_instants.lock(): the thread waits until the mutex is free.  The
\* actions that read or write the map take the mutex themselves when it is
\* free; this action is the same lock() seen as a step of its own, with the
\* other tasks running between it and the access.
TaskLock(i) ==
    /\ tasks[i].pc \in {"check", "remaining", "record"}
    /\ lock = 0
    /\ lock' = i
    /\ UNCHANGED <<faults, instants, tasks, files, captured>>
    /\ TaskStep(i)

\* the runtime polls a spawned task for the first time
TaskStart(i) ==
    /\ tasks[i].pc = "spawned"
    /\ tasks' = [tasks EXCEPT ![i].pc = "check"]
    /\ UNCHANGED <<faults, instants, files, captured, lock>>
    /\ TaskStep(i)

\* the loop head: should_take_screenshot, then either spawn_blocking(...).await
\* or the else branch.  spawn_blocking starts screenshot_window before the
\* await is polled, so the capture is started even when the task is dropped
\* at that await.
TaskCheck(i) ==
    /\ tasks[i].pc = "check"
    /\ lock \in {0, i}
    /\ lock' = drop_guard(lock)
    /\ IF should_take_screenshot(tasks[i].hwnd)
       THEN /\ tasks' = [tasks EXCEPT ![i] = Yield([tasks[i] EXCEPT !.woke = FALSE], "capture")]
            /\ captured' = [captured EXCEPT ![tasks[i].hwnd] = now]
       ELSE /\ tasks' = [tasks EXCEPT ![i].pc = "remaining", ![i].woke = FALSE]
            /\ captured' = captured
    /\ UNCHANGED <<faults, instants, files>>
    /\ TaskStep(i)

\* tokio::time::sleep(get_remaining_time(...)).await
TaskSleep(i) ==
    /\ tasks[i].pc = "remaining"
    /\ lock \in {0, i}
    /\ lock' = drop_guard(lock)
    /\ tasks' = [tasks EXCEPT ![i] =
                    Yield([tasks[i] EXCEPT !.wake = now + get_remaining_time(tasks[i].hwnd)],
                          "sleep")]
    /\ UNCHANGED <<faults, instants, files, captured>>
    /\ TaskStep(i)

\* the sleep elapses
TaskWake(i) ==
    /\ tasks[i].pc = "sleep"
    /\ now >= tasks[i].wake
    /\ tasks' = [tasks EXCEPT ![i].pc = "check", ![i].wake = 0, ![i].woke = TRUE]
    /\ UNCHANGED <<faults, instants, files, captured, lock>>
    /\ TaskStep(i)

\* screenshot_window returns on the blocking pool: Some(image) or None
CaptureDone(i) ==
    /\ tasks[i].pc = "capture"
    /\ \E img \in {"image", "none"} :
        tasks' = [tasks EXCEPT ![i].pc = "woken", ![i].img = img]
    /\ UNCHANGED <<faults, instants, files, captured, lock>>
    /\ TaskStep(i)

\* a mutant of ResumePc: a capture without an image ends the task
ResumePcStops(img) == IF img = "image" THEN "store" ELSE "dead"

\* match result: Ok(Some(image)) goes on to save the image; Ok(None) and
\* Err(e) only print, and the task goes on to record the instant
ResumePc(img) == IF img = "image" THEN "store" ELSE "record"

\* execute_screenshot_on_interval resumes after the await: match result
TaskResume(i) ==
    /\ tasks[i].pc = "woken"
    /\ tasks' = [tasks EXCEPT ![i].pc = ResumePc(tasks[i].img), ![i].img = "none"]
    /\ UNCHANGED <<faults, instants, files, captured, lock>>
    /\ TaskStep(i)

\* Ok(Some(image)): image.save("screenshots/{app_name}_{timestamp}.png").unwrap()
TaskStore(i) ==
    /\ tasks[i].pc = "store"
    /\ \E ok \in Outcomes :
        /\ Fault(ok)
        /\ IF ok
           THEN /\ files' = Append(files, [hwnd |-> tasks[i].hwnd, name |-> tasks[i].name,
                                            timestamp |-> now, task |-> i,
                                            cancelled |-> tasks[i].aborted])
                /\ tasks' = [tasks EXCEPT ![i].pc = "record"]
           ELSE /\ files' = files
                /\ tasks' = [tasks EXCEPT ![i] = Dead(tasks[i])]
    /\ UNCHANGED <<instants, captured, lock>>
    /\ TaskStep(i)

\* a mutant of insert_instant: one instant is kept for all the windows of an
\* application
insert_instant_per_app(map, hwnd_val, t) == [w \in DOMAIN map |-> t]

\* screenshot_instants.insert(hwnd_val, Instant::now())
insert_instant(map, hwnd_val, t) == [map EXCEPT ![hwnd_val] = t]

\* screenshot_instants.lock().unwrap().insert(hwnd_val, Instant::now())
TaskRecord(i) ==
    /\ tasks[i].pc = "record"
    /\ lock \in {0, i}
    /\ lock' = drop_guard(lock)
    /\ instants' = insert_instant(instants, tasks[i].hwnd, now)
    /\ tasks' = [tasks EXCEPT ![i].pc = "check"]
    /\ UNCHANGED <<faults, files, captured>>
    /\ TaskStep(i)

(***************************************************************************)
(* The close handler of the shell (on_window_event, CloseRequested).       *)
(***************************************************************************)
CloseRequested ==
    /\ cpc = "idle"
    /\ cpc' = "lookup"
    /\ UNCHANGED <<dbvars, loopvars, hostvars, faults, now, capp, schedvars, queryvars>>

\* get_or_create_system_app: the first get_saved_app
CloseLookup ==
    /\ cpc = "lookup"
    /\ \E ok \in Outcomes :
        LET app == get_saved_app(apps, SystemName, ok)
        IN /\ Fault(ok)
           /\ IF app # NoApp
              THEN cpc' = "append" /\ capp' = app.id
              ELSE cpc' = "create" /\ capp' = capp
    /\ UNCHANGED <<dbvars, loopvars, hostvars, now, schedvars, queryvars>>

\* get_or_create_system_app: create_app, the fallback id when it fails
CloseCreate ==
    /\ cpc = "create"
    /\ \E ok \in Outcomes :
        LET r == create_app(apps, SystemName, SystemPath, ok)
        IN /\ Fault(ok)
           /\ apps' = r.tbl
           /\ IF r.ok
              THEN cpc' = "reread" /\ capp' = capp
              ELSE cpc' = "append" /\ capp' = FALLBACK_APP_ID
    /\ UNCHANGED <<events, shots, loopvars, hostvars, now, schedvars, queryvars>>

\* get_or_create_system_app: the re-read, the fallback id when it finds nothing
CloseReread ==
    /\ cpc = "reread"
    /\ \E ok \in Outcomes :
        LET app == get_saved_app(apps, SystemName, ok)
        IN /\ Fault(ok)
           /\ capp' = IF app # NoApp THEN app.id ELSE FALLBACK_APP_ID
    /\ cpc' = "append"
    /\ UNCHANGED <<dbvars, loopvars, hostvars, now, schedvars, queryvars>>

\* create_window_event(pool, app_id, "Application Closing", WindowEventType::new(99999))
CloseAppend ==
    /\ cpc = "append"
    /\ \E ok \in Outcomes :
        LET r == create_window_event(events, apps, capp, ClosingTitle, CLOSE_EVENT_CODE,
                                     now, ok)
        IN /\ Fault(ok)
           /\ events' = r.log
           /\ cpc' = IF r.panicked THEN "panicked" ELSE "done"
    /\ UNCHANGED <<apps, shots, loopvars, hostvars, now, capp, schedvars, queryvars>>

(***************************************************************************)
(* The registry scenario: notifications of two names and two paths, the    *)
(* close handler running beside the loop, statements that may fail.        *)
(***************************************************************************)
RegNames == {"app", SystemName}
RegPaths == {"p1", "p2"}
RegNotifs == {ForegroundEvent(n, p, 1) : n \in RegNames, p \in RegPaths} \cup {OtherEvent}

TickReg ==
    /\ now < MaxRegTime
    /\ now' = now + 1
    /\ UNCHANGED <<dbvars, loopvars, closevars, hostvars, faults, schedvars, queryvars>>

SendReg == sent < MaxRegNotifs /\ \E n \in RegNotifs : send_window_info(n)

\* one step of the processing loop
LoopStep ==
    \/ PollEmpty
    \/ PollWake
    \/ Receive
    \/ Lookup
    \/ UpdatePath
    \/ InsertApp
    \/ Reread
    \/ AppendEvent
    \/ Reconcile

NextRegistry ==
    \/ SendReg
    \/ PollEmpty
    \/ PollWake
    \/ Receive
    \/ Lookup
    \/ UpdatePath
    \/ InsertApp
    \/ Reread
    \/ AppendEvent
    \/ Reconcile
    \/ CloseRequested
    \/ CloseLookup
    \/ CloseCreate
    \/ CloseReread
    \/ CloseAppend
    \/ TickReg

InitRegistry == InitCore /\ faults = MaxRegFaults

SpecRegistry == InitRegistry /\ [][NextRegistry]_vars

\* the loop alone with its adapter, the runtime polling the loop's task again
\* and again
NextLoop ==
    \/ SendReg
    \/ LoopStep

SpecLoopFair == InitRegistry /\ [][NextLoop]_vars /\ WF_vars(LoopStep)

(***************************************************************************)
(* The scheduler scenario: two windows of one application name, started    *)
(* from two paths; the scheduler tasks run beside the loop while the clock *)
(* advances.                                                               *)
(***************************************************************************)
SchedNotifs == {ForegroundEvent("app", "p1", 1), ForegroundEvent("app", "p2", 2)}

\* the clock of this scenario advances in steps of half an interval
TickStep == ScreenshotInterval \div 2
SchedSteps == sent + (now \div TickStep)

TickSched ==
    /\ SchedSteps < MaxSchedSteps
    /\ now' = now + TickStep
    /\ UNCHANGED <<dbvars, loopvars, closevars, hostvars, faults, schedvars, queryvars>>

SendSched == SchedSteps < MaxSchedSteps /\ \E n \in SchedNotifs : send_window_info(n)

NextSched ==
    \/ SendSched
    \/ PollEmpty
    \/ PollWake
    \/ Receive
    \/ Lookup
    \/ UpdatePath
    \/ InsertApp
    \/ Reread
    \/ AppendEvent
    \/ Reconcile
    \/ \E i \in 1..Len(tasks) : TaskStart(i)
    \/ \E i \in 1..Len(tasks) : TaskCheck(i)
    \/ \E i \in 1..Len(tasks) : TaskSleep(i)
    \/ \E i \in 1..Len(tasks) : TaskWake(i)
    \/ \E i \in 1..Len(tasks) : CaptureDone(i)
    \/ \E i \in 1..Len(tasks) : TaskResume(i)
    \/ \E i \in 1..Len(tasks) : TaskStore(i)
    \/ \E i \in 1..Len(tasks) : TaskRecord(i)
    \/ TickSched

\* no statement fails in this scenario
InitSched == InitCore /\ faults = 0

SpecSched == InitSched /\ [][NextSched]_vars

(***************************************************************************)
(* The capture scenario: one window comes to the foreground and stays      *)
(* there; its scheduler task runs while the clock advances.                *)
(***************************************************************************)
SendCapture == sent = 0 /\ send_window_info(ForegroundEvent("app", "p1", 1))

\* a task waits for its capture to return or for its sleep to elapse
Waiting(t) == t.pc = "capture" \/ (t.pc = "sleep" /\ t.wake > now)

\* in this scenario the steps of the code take no time: the clock, read from
\* the moment the task is spawned, advances only while the task waits
TickCapture ==
    /\ tasks # <<>>
    /\ \A i \in 1..Len(tasks) : Waiting(tasks[i])
    /\ now < MaxCaptureTicks * TickStep
    /\ now' = now + TickStep
    /\ UNCHANGED <<dbvars, loopvars, closevars, hostvars, faults, schedvars, queryvars>>

NextCapture ==
    \/ SendCapture
    \/ PollEmpty
    \/ PollWake
    \/ Receive
    \/ Lookup
    \/ InsertApp
    \/ Reread
    \/ AppendEvent
    \/ Reconcile
    \/ \E i \in 1..Len(tasks) : TaskStart(i)
    \/ \E i \in 1..Len(tasks) : TaskCheck(i)
    \/ \E i \in 1..Len(tasks) : TaskSleep(i)
    \/ \E i \in 1..Len(tasks) : TaskWake(i)
    \/ \E i \in 1..Len(tasks) : CaptureDone(i)
    \/ \E i \in 1..Len(tasks) : TaskResume(i)
    \/ \E i \in 1..Len(tasks) : TaskStore(i)
    \/ \E i \in 1..Len(tasks) : TaskRecord(i)
    \/ TickCapture

SpecCapture == InitSched /\ [][NextCapture]_vars

\* the capture scenario with a statement or a file write that may fail
InitCaptureFault == InitCore /\ faults = MaxRegFaults

SpecCaptureFault == InitCaptureFault /\ [][NextCapture]_vars

\* one step of the scheduler task, the return of its capture apart
TaskRun ==
    \E i \in 1..Len(tasks) :
        \/ TaskStart(i)
        \/ TaskCheck(i)
        \/ TaskSleep(i)
        \/ TaskWake(i)
        \/ TaskResume(i)
        \/ TaskStore(i)
        \/ TaskRecord(i)

\* the runtime polls the loop and the task again and again and the clock
\* advances; nothing makes screenshot_window return
SpecCaptureFair ==
    SpecCapture /\ WF_vars(LoopStep) /\ WF_vars(TaskRun) /\ WF_vars(TickCapture)

(***************************************************************************)
(* The handover scenario: the foreground moves between two windows of one  *)
(* application while the clock runs for one interval; in its second form   *)
(* the tasks take the mutex of the map in steps of their own.              *)
(***************************************************************************)
SendHandover == sent < MaxRegNotifs /\ \E n \in SchedNotifs : send_window_info(n)

\* the clock advances only while every task waits or has ended
TickHandover ==
    /\ tasks # <<>>
    /\ \A i \in 1..Len(tasks) : tasks[i].pc = "dead" \/ Waiting(tasks[i])
    /\ now < ScreenshotInterval
    /\ now' = now + TickStep
    /\ UNCHANGED <<dbvars, loopvars, closevars, hostvars, faults, schedvars, queryvars>>

NextCancel ==
    \/ SendHandover
    \/ PollEmpty
    \/ PollWake
    \/ Receive
    \/ Lookup
    \/ UpdatePath
    \/ InsertApp
    \/ Reread
    \/ AppendEvent
    \/ Reconcile
    \/ \E i \in 1..Len(tasks) : TaskStart(i)
    \/ \E i \in 1..Len(tasks) : TaskCheck(i)
    \/ \E i \in 1..Len(tasks) : TaskSleep(i)
    \/ \E i \in 1..Len(tasks) : TaskWake(i)
    \/ \E i \in 1..Len(tasks) : CaptureDone(i)
    \/ \E i \in 1..Len(tasks) : TaskResume(i)
    \/ \E i \in 1..Len(tasks) : TaskStore(i)
    \/ \E i \in 1..Len(tasks) : TaskRecord(i)
    \/ TickHandover

\* the runtime polls the loop's task again and again; nothing is assumed of
\* the scheduler tasks or of the captures they wait for
SpecCancelFair == InitSched /\ [][NextCancel]_vars /\ WF_vars(LoopStep)

NextHandover ==
    \/ NextCancel
    \/ \E i \in 1..Len(tasks) : TaskLock(i)

SpecHandover == InitSched /\ [][NextHandover]_vars

(***************************************************************************)
(* The switch scenario: the foreground moves between two windows while     *)
(* statements of the loop may fail; the tasks are spawned and cancelled    *)
(* but not polled.                                                         *)
(***************************************************************************)
NextSwitch ==
    \/ SendHandover
    \/ LoopStep

InitSwitch == InitCore /\ faults = MaxRegFaults

SpecSwitch == InitSwitch /\ [][NextSwitch]_vars

(***************************************************************************)
(* The return scenario: the foreground goes from window 1 to window 2 and  *)
(* back to window 1 while the clock runs for one interval.                 *)
(***************************************************************************)
ReturnScript ==
    <<ForegroundEvent("app", "p1", 1), ForegroundEvent("app", "p1", 2),
      ForegroundEvent("app", "p1", 1)>>

SendReturn == sent < Len(ReturnScript) /\ send_window_info(ReturnScript[sent + 1])

TickReturn ==
    /\ now < ScreenshotInterval
    /\ now' = now + TickStep
    /\ UNCHANGED <<dbvars, loopvars, closevars, hostvars, faults, schedvars, queryvars>>

NextReturn ==
    \/ SendReturn
    \/ PollEmpty
    \/ PollWake
    \/ Receive
    \/ Lookup
    \/ InsertApp
    \/ Reread
    \/ AppendEvent
    \/ Reconcile
    \/ \E i \in 1..Len(tasks) : TaskStart(i)
    \/ \E i \in 1..Len(tasks) : TaskCheck(i)
    \/ \E i \in 1..Len(tasks) : TaskSleep(i)
    \/ \E i \in 1..Len(tasks) : TaskWake(i)
    \/ \E i \in 1..Len(tasks) : CaptureDone(i)
    \/ \E i \in 1..Len(tasks) : TaskResume(i)
    \/ \E i \in 1..Len(tasks) : TaskStore(i)
    \/ \E i \in 1..Len(tasks) : TaskRecord(i)
    \/ TickReturn

SpecReturn == InitSched /\ [][NextReturn]_vars

(***************************************************************************)
(* The startup scenario (crates/core main): start() has spawned the        *)
(* message-loop thread on the blocking pool and the loop's task; main      *)
(* waits for ctrl_c.                                                       *)
(***************************************************************************)
\* run_message_loop: set_win_event_hook stores the sender in the thread's
\* WINDOW_CHANGE_SENDER and returns Ok(hook); the hook is valid and the thread
\* pumps messages
HookSet ==
    /\ hook = "unset"
    /\ hook' = "set"
    /\ UNCHANGED <<dbvars, loopvars, closevars, faults, now, schedvars, queryvars, rx, proc>>

\* run_message_loop: SetWinEventHook returned a null handle, which
\* set_win_event_hook still wraps in Ok; assert!(!hook.is_invalid()) panics
\* inside the spawn_blocking closure.  The runtime catches the panic of a
\* blocking task and keeps it for a JoinHandle that start() has dropped: the
\* thread's closure ends, main goes on waiting for ctrl_c.
HookInvalid ==
    /\ hook = "unset"
    /\ hook' = "invalid"
    /\ UNCHANGED <<dbvars, loopvars, closevars, faults, now, schedvars, queryvars, rx, proc>>

\* main: tokio::signal::ctrl_c().await? returns and main returns Ok(()): the
\* runtime is dropped, every async task is dropped at its await (the loop with
\* its receiver, the scheduler tasks), and the drop then waits for the
\* closures of the blocking pool.  What the channel held is never read again.
CtrlC ==
    /\ proc = "running" /\ hook # "unset"
    /\ proc' = "stopping"
    /\ rx' = FALSE
    /\ lpc' = "dropped"
    /\ tasks' = [i \in 1..Len(tasks) |-> Dead(tasks[i])]
    /\ UNCHANGED <<dbvars, chan, sent, ev, found, res, call, calls, appends, closevars, faults,
                   now, cur, handle, instants, files, captured, lock, queryvars, hook>>

\* the drop of the runtime returns once the message-loop closure has ended;
\* GetMessageW of a thread that pumps never returns
ProcessExit ==
    /\ proc = "stopping" /\ hook # "set"
    /\ proc' = "exited"
    /\ UNCHANGED <<dbvars, loopvars, closevars, faults, now, schedvars, queryvars, hook, rx>>

\* win_event_hook_callback, called from the pump of the message-loop thread
SendStartup ==
    /\ hook = "set" /\ sent < MaxRegNotifs
    /\ \E n \in RegNotifs : send_window_info(n)

NextStartup ==
    \/ HookSet
    \/ HookInvalid
    \/ SendStartup
    \/ PollEmpty
    \/ PollWake
    \/ Receive
    \/ Lookup
    \/ UpdatePath
    \/ InsertApp
    \/ Reread
    \/ AppendEvent
    \/ Reconcile
    \/ CtrlC
    \/ ProcessExit

InitStartup == InitProcessor /\ hook = "unset" /\ faults = MaxRegFaults

SpecStartup == InitStartup /\ [][NextStartup]_vars

(***************************************************************************)
(* The read queries.  A query whose ORDER BY leaves ties is free to return *)
(* them in any order, so each query is the set of results it may return.   *)
(***************************************************************************)
\* INSERT INTO screenshot (app_id, screenshot): created_at defaults to the
\* current second
create_screenshot(tbl, atbl, app_id, screenshot, clock, dbOk) ==
    IF dbOk /\ ForeignKeyOk(atbl, app_id)
    THEN tbl \cup {[id |-> NextId(tbl), app_id |-> app_id, png |-> screenshot,
                    created_at |-> clock]}
    ELSE tbl

(***************************************************************************)
(* Image bytes.  A blob is a sequence of bytes.  The codec of the model     *)
(* reads two formats, told apart by their first bytes as image's           *)
(* load_from_memory does: a PNG file is the signature followed by one byte  *)
(* that stands for the picture, a JPEG file is its two-byte marker followed *)
(* by that byte.                                                            *)
(***************************************************************************)
\* let png_sig: [u8; 8] = [137, 80, 78, 71, 13, 10, 26, 10]
png_sig == <<137, 80, 78, 71, 13, 10, 26, 10>>
\* the start-of-image marker of a JPEG file
JpegMagic == <<255, 216>>
\* the pictures: an 8-bit picture and one of a colour type PNG cannot hold
Rgb8 == 1
Rgb32F == 2
\* Err(_) of load_from_memory
NoImage == 0

\* bytes.len() >= 8 && &bytes[..8] == &png_sig
HasPngSig(bytes) == Len(bytes) >= Len(png_sig) /\ SubSeq(bytes, 1, Len(png_sig)) = png_sig

\* image::load_from_memory(&bytes): the picture, NoImage when the format is
\* not recognised or the data does not decode
load_from_memory(bytes) ==
    IF HasPngSig(bytes) /\ Len(bytes) = Len(png_sig) + 1 /\ bytes[Len(bytes)] \in {Rgb8, Rgb32F}
    THEN bytes[Len(bytes)]
    ELSE IF /\ Len(bytes) = Len(JpegMagic) + 1
            /\ SubSeq(bytes, 1, Len(JpegMagic)) = JpegMagic
            /\ bytes[Len(bytes)] \in {Rgb8, Rgb32F}
    THEN bytes[Len(bytes)]
    ELSE NoImage

\* img.write_to(&mut Cursor::new(&mut out), ImageFormat::Png), its result
\* dropped: out holds the PNG file, or nothing when the encoder refuses the
\* picture
write_to_png(img) == IF img = Rgb8 THEN png_sig \o <<img>> ELSE <<>>

\* a mutant of png_of: bytes that do not decode are replaced by empty bytes
png_of_drops_undecodable(bytes) ==
    IF HasPngSig(bytes) THEN bytes
    ELSE IF load_from_memory(bytes) = NoImage THEN <<>>
    ELSE IF write_to_png(load_from_memory(bytes)) = <<>> THEN bytes
    ELSE write_to_png(load_from_memory(bytes))

\* the command get_nearest_screenshot: let png = if ... { bytes } else { match
\* image::load_from_memory(&bytes) { ... } }
png_of(bytes) ==
    IF HasPngSig(bytes) THEN bytes
    ELSE IF load_from_memory(bytes) = NoImage THEN bytes
    ELSE IF write_to_png(load_from_memory(bytes)) = <<>> THEN bytes
    ELSE write_to_png(load_from_memory(bytes))

\* the blobs stored in the image-read scenario
Blobs == {<<>>, <<0, 0>>,
          png_sig, png_sig \o <<Rgb8>>, SubSeq(png_sig, 1, Len(png_sig) - 1),
          JpegMagic, JpegMagic \o <<Rgb8>>, JpegMagic \o <<Rgb32F>>}

\* INSERT INTO window_event (..., created_at) VALUES (..., datetime(?, 'unixepoch'))
create_window_event_with_timestamp(log, tbl, app_id, title, event_code, timestamp_sec, dbOk) ==
    create_window_event(log, tbl, app_id, title, event_code, timestamp_sec, dbOk).log

\* a mutant of InRange: the upper endpoint is excluded
InRangeExclusive(x, lo, hi) == x >= lo /\ x < hi

\* we.created_at BETWEEN datetime(?1, 'unixepoch') AND datetime(?2, 'unixepoch')
InRange(x, lo, hi) == x >= lo /\ x <= hi

\* a mutant of OrderedAsc: the rows come back in table order, with no ORDER BY
OrderedByRowid(f) == \A i, j \in DOMAIN f : i < j => f[i].row < f[j].row

\* ORDER BY we.created_at ASC
OrderedAsc(f) == \A i, j \in DOMAIN f : i < j => f[i].created_at_sec <= f[j].created_at_sec

\* LIMIT ?: a negative limit is no limit
Limited(f, limit) ==
    IF limit < 0 \/ limit >= Len(f) THEN f ELSE SubSeq(f, 1, limit)

\* FROM window_event we JOIN app a ON a.id = we.app_id WHERE ...: the rows
\* selected, each with the name of its application (row is the rowid of the
\* window_event row, kept to tell equal rows apart; the code does not return it)
JoinedRows(log, tbl, start_sec, end_sec) ==
    {[row |-> p[1], app_id |-> log[p[1]].app_id, app_name |-> p[2].name,
      window_title |-> log[p[1]].window_title, event_type |-> log[p[1]].event_type,
      created_at_sec |-> log[p[1]].created_at] :
        p \in {q \in (1..Len(log)) \X tbl :
                  /\ q[2].id = log[q[1]].app_id
                  /\ InRange(log[q[1]].created_at, start_sec, end_sec)}}

get_window_events_secs(log, tbl, start_sec, end_sec, limit) ==
    LET rows == JoinedRows(log, tbl, start_sec, end_sec)
        n == Cardinality(rows)
    IN {Limited(f, limit) :
            f \in {g \in [1..n -> rows] :
                      (\A i, j \in 1..n : i # j => g[i] # g[j]) /\ OrderedAsc(g)}}

\* the rows a scan "ORDER BY created_at <dir> LIMIT 1" may return: those whose
\* created_at is the first in that direction
FirstAsc(rows) == {r \in rows : \A q \in rows : r.created_at <= q.created_at}
FirstDesc(rows) == {r \in rows : \A q \in rows : r.created_at >= q.created_at}

\* WHERE (?1 IS NULL OR app_id = ?1)
AppFilter(r, app_id) == app_id = NoAppId \/ r.app_id = app_id

\* a mutant of NewerRows: created_at > instead of >=
NewerRowsStrict(tbl, ts_sec, app_id) ==
    FirstAsc({r \in tbl : AppFilter(r, app_id) /\ r.created_at > ts_sec})

\* the first query: created_at >= datetime(?2, 'unixepoch') ORDER BY created_at ASC LIMIT 1
NewerRows(tbl, ts_sec, app_id) ==
    FirstAsc({r \in tbl : AppFilter(r, app_id) /\ r.created_at >= ts_sec})

\* the second query: created_at < datetime(?2, 'unixepoch') ORDER BY created_at DESC LIMIT 1
OlderRows(tbl, ts_sec, app_id) ==
    FirstDesc({r \in tbl : AppFilter(r, app_id) /\ r.created_at < ts_sec})

\* a row as the Screenshot the query returns
AsScreenshot(r) ==
    [id |-> r.id, app_id |-> r.app_id, created_at_sec |-> r.created_at, png |-> r.png]

\* a mutant of Pick: doff < noff, a tie goes to the newer row
PickNewerOnTie(o, n, ts_sec) ==
    IF o = NoShot THEN n
    ELSE IF n = NoShot THEN o
    ELSE IF Abs(ts_sec - o.created_at_sec) < Abs(n.created_at_sec - ts_sec) THEN o ELSE n

\* let pick = match (older, newer) { ... if doff <= noff { Some(o) } else { Some(n) } }
Pick(o, n, ts_sec) ==
    IF o = NoShot THEN n
    ELSE IF n = NoShot THEN o
    ELSE IF Abs(ts_sec - o.created_at_sec) <= Abs(n.created_at_sec - ts_sec) THEN o ELSE n

OrNone(S) == IF S = {} THEN {NoShot} ELSE {AsScreenshot(r) : r \in S}

get_nearest_screenshot(tbl, ts_sec, app_id) ==
    {Pick(o, n, ts_sec) : o \in OrNone(OlderRows(tbl, ts_sec, app_id)),
                          n \in OrNone(NewerRows(tbl, ts_sec, app_id))}

(***************************************************************************)
(* The query scenarios: a database with two registered applications, rows  *)
(* inserted while the clock advances, and the queries of the presentation  *)
(* layer.                                                                  *)
(***************************************************************************)
QueryApps == {[id |-> 1, name |-> "app", path |-> "p1"],
              [id |-> 2, name |-> SystemName, path |-> SystemPath]}
\* the app_id filters tried: none, the two applications, an unknown id
QueryAppIds == {NoAppId, 1, 2, 3}

InitQuery ==
    /\ apps = QueryApps /\ events = <<>> /\ shots = {}
    /\ chan = <<>> /\ sent = 0 /\ now = 0 /\ faults = 0
    /\ lpc = "recv" /\ ev = NoEvent /\ found = NoApp /\ res = NoApp
    /\ call = NoCall /\ calls = <<>> /\ appends = <<>>
    /\ cpc = "idle" /\ capp = 0
    /\ cur = 0 /\ handle = 0
    /\ instants = [w \in Windows |-> NoInstant]
    /\ tasks = <<>> /\ files = <<>>
    /\ captured = [w \in Windows |-> NoInstant]
    /\ lock = 0
    /\ qin = NoQuery /\ qev = <<>> /\ qshot = NoShot
    /\ hook = "set" /\ rx = TRUE /\ proc = "running"

\* qin, qev and qshot hold the last query and its answer while the tables are
\* as the query saw them; a later insert clears them
ForgetQuery == qin' = NoQuery /\ qev' = <<>> /\ qshot' = NoShot

TickQuery ==
    /\ now < MaxQTime
    /\ now' = now + 1
    /\ UNCHANGED <<dbvars, loopvars, closevars, hostvars, faults, schedvars, queryvars>>

InsertScreenshot ==
    /\ Cardinality(shots) < MaxShots
    /\ \E a \in {r.id : r \in apps} :
        shots' = create_screenshot(shots, apps, a, png_sig \o <<Rgb8>>, now, TRUE)
    /\ ForgetQuery
    /\ UNCHANGED <<apps, events, loopvars, closevars, hostvars, faults, now, schedvars>>

\* Ok(res.map(|s| ... Screenshot { id, created_at_sec, app_id, png }))
Normalized(s) == IF s = NoShot THEN NoShot ELSE [s EXCEPT !.png = png_of(s.png)]

\* the presentation layer asks once about each content of the table
QueryNearest ==
    /\ qin = NoQuery
    /\ \E ts \in 0..(MaxQTime + 1), a \in QueryAppIds :
        /\ qin' = [q |-> "nearest", a |-> ts, b |-> a, c |-> 0]
        /\ qshot' \in {Normalized(s) : s \in get_nearest_screenshot(shots, ts, a)}
    /\ UNCHANGED <<dbvars, loopvars, closevars, hostvars, faults, now, schedvars, qev>>

NextShots ==
    \/ TickQuery
    \/ InsertScreenshot
    \/ QueryNearest

SpecShots == InitQuery /\ [][NextShots]_vars

\* the image-read scenario: blobs of every kind are stored and read back
InsertBlob ==
    /\ Cardinality(shots) < MaxBlobs
    /\ \E a \in {r.id : r \in apps}, b \in Blobs :
        shots' = create_screenshot(shots, apps, a, b, now, TRUE)
    /\ ForgetQuery
    /\ UNCHANGED <<apps, events, loopvars, closevars, hostvars, faults, now, schedvars>>

NextRead ==
    \/ InsertBlob
    \/ QueryNearest

SpecRead == InitQuery /\ [][NextRead]_vars

InsertEvent ==
    /\ Len(events) < MaxEvents
    /\ \E a \in {r.id : r \in apps} :
        events' = create_window_event(events, apps, a, "t", EVENT_SYSTEM_FOREGROUND,
                                      now, TRUE).log
    /\ ForgetQuery
    /\ UNCHANGED <<apps, shots, loopvars, closevars, hostvars, faults, now, schedvars>>

InsertEventAt ==
    /\ Len(events) < MaxEvents
    /\ \E a \in {r.id : r \in apps}, ts \in 0..MaxQTime :
        events' = create_window_event_with_timestamp(events, apps, a, "t",
                                                     EVENT_SYSTEM_FOREGROUND, ts, TRUE)
    /\ ForgetQuery
    /\ UNCHANGED <<apps, shots, loopvars, closevars, hostvars, faults, now, schedvars>>

QueryEvents ==
    /\ qin = NoQuery
    /\ \E s \in 0..MaxQTime, e \in 0..MaxQTime, limit \in (-1)..MaxLimit :
        /\ qin' = [q |-> "events", a |-> s, b |-> e, c |-> limit]
        /\ qev' \in get_window_events_secs(events, apps, s, e, limit)
    /\ UNCHANGED <<dbvars, loopvars, closevars, hostvars, faults, now, schedvars, qshot>>

NextEvents ==
    \/ TickQuery
    \/ InsertEvent
    \/ InsertEventAt
    \/ QueryEvents

SpecEvents == InitQuery /\ [][NextEvents]_vars

(***************************************************************************)
(* The command scenario: the commands of the presentation layer, which     *)
(* take their instants in milliseconds.                                    *)
(***************************************************************************)
\* start_ms / 1000, end_ms / 1000, ts_ms / 1000
MsPerSec == 1000
\* limit.unwrap_or(2000)
DefaultLimit == 2000

\* the `/` of i64: the quotient truncated toward zero
ms_to_sec(ms) == IF ms >= 0 THEN ms \div MsPerSec ELSE -((-ms) \div MsPerSec)

\* the instants tried: the seconds from -2 to the end of the clock, each at
\* its start and at its middle
MsInputs == {sec * MsPerSec + off : sec \in (-2)..MaxQTime, off \in {0, MsPerSec \div 2}}

\* the command fetch_window_events(start_ms, end_ms, None)
fetch_window_events ==
    /\ qin = NoQuery
    /\ \E start_ms \in MsInputs, end_ms \in MsInputs :
        /\ qin' = [q |-> "fetch", a |-> start_ms, b |-> end_ms, c |-> DefaultLimit]
        /\ qev' \in get_window_events_secs(events, apps, ms_to_sec(start_ms),
                                            ms_to_sec(end_ms), DefaultLimit)
    /\ UNCHANGED <<dbvars, loopvars, closevars, hostvars, faults, now, schedvars, qshot>>

\* the command get_nearest_screenshot(ts_ms, app_id)
get_nearest_screenshot_ms ==
    /\ qin = NoQuery
    /\ \E ts_ms \in MsInputs, a \in QueryAppIds :
        /\ qin' = [q |-> "nearest_ms", a |-> ts_ms, b |-> a, c |-> 0]
        /\ qshot' \in {Normalized(sh) : sh \in get_nearest_screenshot(shots, ms_to_sec(ts_ms), a)}
    /\ UNCHANGED <<dbvars, loopvars, closevars, hostvars, faults, now, schedvars, qev>>

NextCommands ==
    \/ InsertEventAt
    \/ InsertScreenshot
    \/ fetch_window_events
    \/ get_nearest_screenshot_ms

SpecCommands == InitQuery /\ [][NextCommands]_vars

(***************************************************************************)
(* Properties.                                                             *)
(***************************************************************************)
\* a task is Active from its spawn until abort() is called on its handle (or
\* it dies); a task whose abort was requested is Cancelled
Active(t) == t.pc # "dead" /\ ~t.aborted
ActiveTasks == {i \in 1..Len(tasks) : Active(tasks[i])}

C2_NoStoreAfterCancel == \A k \in 1..Len(files) : ~files[k].cancelled

\* the resolve calls c (of the log) that found the name stored under another path
PathDiffers(c) == c.pre # NoApp /\ c.pre.path # c.path

\* C3: two consecutive resolve calls with the same name and the same path that
\* both return an application return the same id, and the second one writes
\* nothing: the row of that name is the same before and after it.
C3_SameNameSamePath ==
    \A i \in 1..(Len(calls) - 1) :
        LET a == calls[i]
            b == calls[i + 1]
        IN (a.ok /\ b.ok /\ a.name = b.name /\ a.path = b.path)
           => /\ b.id = a.id
              /\ b.wrote = "none"
              /\ b.post = b.pre
              /\ b.post.path = b.path

\* C3 witness: a first call inserted the application and a second call with
\* the same name and path returned it.
C3_Witness ==
    /\ Len(calls) >= 2
    /\ calls[1].ok /\ calls[2].ok
    /\ calls[1].wrote = "insert"
    /\ calls[1].name = calls[2].name /\ calls[1].path = calls[2].path

\* C4: a resolve call that finds the name stored under a different path never
\* inserts a row and leaves the id of the stored row as it was; when it
\* returns an application, the stored path is the observed path and the
\* application returned carries the stored id and the observed path.
C4_PathUpdatedInPlace ==
    \A i \in 1..Len(calls) :
        LET c == calls[i]
        IN PathDiffers(c)
           => /\ c.wrote # "insert"
              /\ c.post.id = c.pre.id
              /\ c.post.name = c.name
              /\ c.ok => /\ c.wrote = "update"
                         /\ c.post.path = c.path
                         /\ c.id = c.pre.id
                         /\ c.retpath = c.path

\* C4 witness: a call found the name under another path and returned the
\* application with the new path.
C4_Witness ==
    \E i \in 1..Len(calls) : PathDiffers(calls[i]) /\ calls[i].ok

\* C5: the application table holds at most one row per name.
C5_OneRowPerName == \A r, q \in apps : r.name = q.name => r = q

\* C5 witness: with no statement failed, a resolve call that saw no row of the
\* name had its insert rejected, the close handler having inserted the name
\* in between.
C5_Witness ==
    /\ faults = MaxRegFaults
    /\ \E i \in 1..Len(calls) :
        /\ calls[i].pre = NoApp
        /\ ~calls[i].ok
        /\ calls[i].post # NoApp

\* C6: no step removes an application row or changes the id or the name of
\* one: every (id, name) of the table is still in it after the step.
C6_RowsOnlyGrow ==
    [][\A r \in apps : \E q \in apps' : q.id = r.id /\ q.name = r.name]_vars

\* C6 witness: a path was updated in a table of two rows.
C6_Witness ==
    /\ Cardinality(apps) >= 2
    /\ \E i \in 1..Len(calls) : calls[i].wrote = "update"

\* the rows a nearest-screenshot query with filter app_id chooses among
Matching(app_id) == {r \in shots : AppFilter(r, app_id)}
Distance(r, ts) == Abs(r.created_at - ts)

\* C7: the screenshot returned is a stored row of the filtered application at
\* minimal distance from the query time, and nothing is returned exactly when
\* no row matches the filter.
C7_NearestIsClosest ==
    qin.q = "nearest"
    => LET ts == qin.a
           M == Matching(qin.b)
       IN /\ (qshot = NoShot) <=> (M = {})
          /\ qshot # NoShot
             => /\ \E r \in M : /\ AsScreenshot(r) = qshot
                                /\ \A q \in M : Distance(r, ts) <= Distance(q, ts)
                /\ qin.b # NoAppId => qshot.app_id = qin.b

\* C7 witness: with rows on both sides of the query time, under a filter, the
\* newer one is closer and is returned.
C7_Witness ==
    /\ qin.q = "nearest" /\ qin.b # NoAppId
    /\ qshot # NoShot /\ qshot.created_at_sec > qin.a
    /\ \E r \in Matching(qin.b) : r.created_at < qin.a
    /\ \E r \in shots : r.app_id # qin.b

\* C8: when the closest row before the query time and the closest row at or
\* after it are equally far, the older one is returned; a row stored exactly
\* at the query time is returned rather than any older one.
C8_TieGoesToOlder ==
    qin.q = "nearest"
    => LET ts == qin.a
           M == Matching(qin.b)
           Older == {r \in M : r.created_at < ts}
           Newer == {r \in M : r.created_at >= ts}
       IN /\ \A o \in FirstDesc(Older), n \in FirstAsc(Newer) :
                Distance(o, ts) = Distance(n, ts)
                => qshot.created_at_sec = o.created_at /\ qshot.created_at_sec < ts
          /\ (\E r \in M : r.created_at = ts) => qshot.created_at_sec = ts

\* C8 witness: a tie between an older and a newer row, answered with the older.
C8_Witness ==
    /\ qin.q = "nearest"
    /\ \E o, n \in Matching(qin.b) :
        /\ o.created_at < qin.a /\ n.created_at > qin.a
        /\ Distance(o, qin.a) = Distance(n, qin.a)
        /\ \A r \in Matching(qin.b) : Distance(r, qin.a) >= Distance(o, qin.a)
        /\ qshot = AsScreenshot(o)

\* the rowids of the events a range query [s, e] selects
RowsInRange(s, e) == {i \in 1..Len(events) : s <= events[i].created_at /\ events[i].created_at <= e}

\* C9: every row returned is a stored event with s <= created_at <= e, carrying
\* the name of its application, and no event is returned twice; when the
\* events of [s, e] are not more than limit, all of them are returned.
C9_RangeInclusive ==
    qin.q = "events"
    => LET s == qin.a
           e == qin.b
           limit == qin.c
           M == RowsInRange(s, e)
       IN /\ \A k \in 1..Len(qev) :
                /\ qev[k].row \in M
                /\ s <= qev[k].created_at_sec /\ qev[k].created_at_sec <= e
                /\ qev[k].created_at_sec = events[qev[k].row].created_at
                /\ qev[k].app_id = events[qev[k].row].app_id
                /\ \E a \in apps : a.id = qev[k].app_id /\ a.name = qev[k].app_name
          /\ \A k, m \in 1..Len(qev) : k # m => qev[k].row # qev[m].row
          /\ Cardinality(M) <= limit => {qev[k].row : k \in 1..Len(qev)} = M

\* C9 witness: a query whose two endpoints each carry an event, both returned.
C9_Witness ==
    /\ qin.q = "events" /\ qin.a < qin.b /\ qin.c >= 2
    /\ Len(qev) = 2
    /\ qev[1].created_at_sec = qin.a
    /\ qev[2].created_at_sec = qin.b

\* C10 (as claimed): the sequence returned is strictly ascending by created_at.
C10_StrictlyAscending ==
    qin.q = "events"
    => \A i, j \in 1..Len(qev) : i < j => qev[i].created_at_sec < qev[j].created_at_sec

\* C10 (amended): the sequence returned is ascending by created_at, events of
\* the same second being adjacent with equal created_at.
C10_Ascending ==
    qin.q = "events"
    => \A i, j \in 1..Len(qev) : i < j => qev[i].created_at_sec <= qev[j].created_at_sec

\* C10 witness: two events stored out of time order are returned in time order.
C10_Witness ==
    /\ qin.q = "events"
    /\ Len(qev) = 2
    /\ qev[1].created_at_sec < qev[2].created_at_sec
    /\ qev[1].row > qev[2].row

\* C11 (as claimed): for every limit, negative ones included, the sequence
\* returned is not longer than limit, is ascending by created_at, and holds
\* the earliest events of the range: no event of the range left out is
\* earlier than one returned.
C11_LengthWithinLimit ==
    qin.q = "events"
    => LET M == RowsInRange(qin.a, qin.b)
           Got == {qev[k].row : k \in 1..Len(qev)}
       IN /\ Len(qev) <= qin.c
          /\ \A i, j \in 1..Len(qev) : i < j => qev[i].created_at_sec <= qev[j].created_at_sec
          /\ \A g \in Got, m \in M \ Got : events[g].created_at <= events[m].created_at

\* C13 (as claimed): the created_at of the window_event rows never decreases
\* in insertion order, whichever inserts were made.
C13_TimestampsNonDecreasing ==
    \A i, j \in 1..Len(events) : i < j => events[i].created_at <= events[j].created_at

\* the register_window_event calls that stored a row
Stored_appends == {k \in 1..Len(appends) : appends[k].ok}

\* C12: the calls that append an event are made in the order the notifications
\* were sent, one call at most per notification; each resolve that returned an
\* application is followed by one such call; the rows of the log written by
\* the loop are exactly the rows of the calls that succeeded, one row each, in
\* the same order.
C12_EventsInSendOrder ==
    /\ \A k, m \in 1..Len(appends) : k < m => appends[k].seq < appends[m].seq
    /\ Cardinality({i \in 1..Len(calls) : calls[i].ok})
         = Len(appends) + (IF lpc = "append" THEN 1 ELSE 0)
    /\ \A k, m \in Stored_appends : k < m => appends[k].row < appends[m].row
    /\ {appends[k].row : k \in Stored_appends}
         = {i \in 1..Len(events) : events[i].event_type = DebugFmt(EVENT_SYSTEM_FOREGROUND)}
    /\ Cardinality(Stored_appends)
         = Cardinality({i \in 1..Len(events) : events[i].event_type = DebugFmt(EVENT_SYSTEM_FOREGROUND)})

\* C12 witness: two notifications waited in the channel together and both
\* were appended.
C12_Witness ==
    /\ Len(events) >= 2
    /\ Cardinality(Stored_appends) >= 2
    /\ appends[1].seq < appends[2].seq

\* C14: every row of the log references exactly one application row, which
\* exists: the row of the name its notification carried, or the System
\* application for a closing event; and no step changes or removes a row of
\* the log.
C14_EventsReferenceApps ==
    /\ [](\A i \in 1..Len(events) :
            /\ Cardinality({a \in apps : a.id = events[i].app_id}) = 1
            /\ \/ \E k \in Stored_appends :
                    /\ appends[k].row = i
                    /\ events[i].app_id = appends[k].app_id
                    /\ \E a \in apps : a.id = events[i].app_id /\ a.name = appends[k].name
               \/ /\ events[i].window_title = ClosingTitle
                  /\ \E a \in apps : a.id = events[i].app_id /\ a.name = SystemName)
    /\ [][\A i \in 1..Len(events) : i <= Len(events') /\ events'[i] = events[i]]_vars

\* C14 witness: the log holds events of two applications.
C14_Witness ==
    /\ Len(events) >= 2
    /\ events[1].app_id # events[2].app_id

\* C15: the loop's task never ends: in every state it has not panicked and
\* has a next step, whatever the outcome of the notification it handled, and
\* every notification waiting in the channel is received.
C15_LoopSurvives ==
    /\ [](lpc # "panicked" /\ ENABLED LoopStep)
    /\ (chan # <<>>) ~> (chan = <<>>)

\* C15 witness: after a notification whose resolve failed and an unsupported
\* notification, or a failed append, the loop handled a later notification.
C15_Witness ==
    /\ Len(calls) >= 2
    /\ ~calls[1].ok
    /\ calls[2].ok
    /\ lpc = "recv"

\* the rows of the log that are closing events
ClosingEvents == {i \in 1..Len(events) : events[i].window_title = ClosingTitle}

\* C20 (as claimed): once the close handler has run, the log holds exactly one
\* closing event, attributed to an application row that exists.
C20_OneClosingEvent ==
    cpc \in {"done", "panicked"}
    => /\ Cardinality(ClosingEvents) = 1
       /\ \A i \in ClosingEvents : \E a \in apps : a.id = events[i].app_id

\* the files task i has written
FilesOf(i) == {k \in 1..Len(files) : files[k].task = i}

\* C16 (as claimed): while the task of the window is Active, D seconds after
\* its spawn, the screenshots it has stored number between floor(D/I) - 1 and
\* floor(D/I) + 1 (in the capture scenario the clock starts at the spawn).
C16_CountWithinOne ==
    \A i \in ActiveTasks :
        LET n == Cardinality(FilesOf(i))
            q == now \div ScreenshotInterval
        IN q - 1 <= n /\ n <= q + 1

\* task i starts a capture in this step
Taken(i) == tasks[i].pc = "check" /\ tasks'[i].pc \in {"capture", "dead"}

\* C17 (as claimed): a capture is started for a window only when no capture
\* was started for it before or the last one was started at least one
\* interval ago.
C17_CapturesApart ==
    [][\A i \in 1..Len(tasks) :
          Taken(i) => \/ captured[tasks[i].hwnd] = NoInstant
                      \/ now - captured[tasks[i].hwnd] >= ScreenshotInterval]_vars

C19_PngNormalized ==
    qin.q = "nearest"
    => /\ (qshot = NoShot) <=> (Matching(qin.b) = {})
       /\ qshot # NoShot
          => \E r \in shots :
                LET raw == r.png
                    out == qshot.png
                    img == load_from_memory(raw)
                IN /\ r.id = qshot.id
                   /\ HasPngSig(raw) => out = raw
                   /\ (~HasPngSig(raw) /\ img # NoImage /\ write_to_png(img) # <<>>)
                      => /\ HasPngSig(out)
                         /\ load_from_memory(out) = img
                         /\ out # raw
                   /\ (~HasPngSig(raw) /\ (img = NoImage \/ write_to_png(img) = <<>>))
                      => out = raw
                   /\ png_of(out) = out

\* C19 witness: a stored JPEG file was returned as a PNG file, from a table
\* that also holds bytes that do not decode.
C19_Witness ==
    /\ qin.q = "nearest" /\ qshot # NoShot
    /\ HasPngSig(qshot.png)
    /\ \E r \in shots : r.id = qshot.id /\ ~HasPngSig(r.png)
    /\ \E r \in shots : ~HasPngSig(r.png) /\ load_from_memory(r.png) = NoImage

\* C21: when the hook registration fails at startup (the thread's hook is
\* invalid), the process does not go on running: in every state whose hook is
\* invalid the process is stopping or has exited.  The code keeps running:
\* the panic of the assert stays inside the blocking task.
C21_HookFailureExits == hook = "invalid" => proc # "running"

\* everything but the count of the calls of send_window_info
AllButSent ==
    <<dbvars, chan, faults, now, lpc, ev, found, res, call, calls, appends, closevars,
      schedvars, queryvars, hostvars>>

\* C22: a call of send_window_info made when the receiving end is gone, or when
\* the calling thread has no sender registered, changes nothing: the channel,
\* the tables, the loop, the scheduler and the message-loop thread (which
\* neither panics nor stops pumping) are what they were before the call.
C22_DroppedSendChangesNothing ==
    [][(sent' # sent /\ ~(Registered /\ rx)) => UNCHANGED AllButSent]_vars

\* C22 witness: the receiver was dropped while the first notification was
\* still in the channel, and the callback sent a second one afterwards: it is
\* not in the channel, and the thread still pumps.
C22_Witness ==
    /\ ~rx /\ hook = "set"
    /\ sent = 2 /\ Len(chan) = 1 /\ chan[1].seq = 1

\* C23: the handle is present exactly when a window is tracked; the task of
\* the handle is the newest one, is bound to the tracked window, and is the
\* only task that has not been cancelled; and the step that ends the handling
\* of a foreground notification for window h leaves h tracked with a
\* non-cancelled task bound to h, and, when h was not the tracked window,
\* has cancelled the task held before and spawned a new one.
C23_TrackedWindowHasItsTask ==
    /\ []((handle # 0) <=> (cur # 0))
    /\ [](handle # 0
          => /\ handle = Len(tasks)
             /\ tasks[handle].hwnd = cur
             /\ \A i \in 1..Len(tasks) : ~tasks[i].aborted => i = handle)
    /\ [][(lpc = "reconcile" /\ lpc' = "recv")
          => /\ cur' = ev.hwnd
             /\ handle' # 0
             /\ tasks'[handle'].hwnd = ev.hwnd
             /\ ~tasks'[handle'].aborted
             /\ (cur # ev.hwnd)
                => /\ Len(tasks') = Len(tasks) + 1
                   /\ handle' = Len(tasks')
                   /\ tasks'[handle'].pc = "spawned"
                   /\ handle # 0 => tasks'[handle].aborted
             /\ (cur = ev.hwnd) => handle' = handle]_vars

\* C23 witness: the foreground moved from window 1 to window 2: the task of
\* window 1 is cancelled, the handle is the task of window 2.
C23_Witness ==
    /\ lpc = "recv" /\ Len(tasks) = 2
    /\ tasks[1].hwnd = 1 /\ tasks[1].aborted
    /\ cur = 2 /\ handle = 2 /\ tasks[2].hwnd = 2 /\ ~tasks[2].aborted

\* the positions of the loop inside handle_foreground_event
Handling == {"lookup", "update", "insert", "reread", "append", "reconcile"}

\* C24: while the loop handles a foreground notification for the window it
\* already tracks, no step of the loop changes the tracked window, the handle,
\* the tasks (none cancelled, none spawned, no wake-up time changed), the
\* last-capture map or its mutex; and when the handling reaches its end the
\* FocusEvent of the notification has been appended.
C24_SameWindowLeavesScheduler ==
    /\ []((lpc = "reconcile" /\ cur = ev.hwnd)
          => /\ appends # <<>>
             /\ appends[Len(appends)].seq = ev.seq
             /\ appends[Len(appends)].ok)
    /\ [][(lpc \in Handling /\ lpc' # lpc /\ cur = ev.hwnd)
          => UNCHANGED <<cur, handle, tasks, instants, lock>>]_vars

\* C24 witness: window 1 came to the foreground twice; one task exists, it has
\* been polled, and two FocusEvents are stored.
C24_Witness ==
    /\ lpc = "recv" /\ ev.seq = 2 /\ ev.hwnd = 1 /\ cur = 1
    /\ Len(tasks) = 1 /\ tasks[1].pc = "sleep" /\ ~tasks[1].aborted
    /\ Len(events) = 2

\* C25: a resolve that inserted the application and then re-read nothing
\* (its call returned no stored id) returned an error, no FocusEvent was
\* attempted for its notification, and the loop has not ended.
C25_RereadNothingIsError ==
    /\ lpc # "panicked"
    /\ \A i \in 1..Len(calls) :
        (calls[i].wrote = "insert" /\ calls[i].id = 0)
        => /\ ~calls[i].ok
           /\ \A k \in 1..Len(appends) : appends[k].seq # calls[i].seq

\* C25 witness: the insert stored the row, the re-read failed, and the loop
\* resolved a later notification.
C25_Witness ==
    \E i \in 1..Len(calls) :
        /\ calls[i].wrote = "insert" /\ ~calls[i].ok /\ calls[i].post # NoApp
        /\ i < Len(calls) /\ calls[i + 1].ok
        /\ appends # <<>>

\* everything but the channel
AllButChan ==
    <<dbvars, sent, faults, now, lpc, ev, found, res, call, calls, appends, closevars,
      schedvars, queryvars, hostvars>>

\* C26: the step that takes a notification of an unrecognized kind from the
\* channel changes nothing else: the loop is back at its receive, and the
\* tables, the notification in hand, the histories and the scheduler are
\* unchanged.
C26_UnknownKindDropped ==
    [][(lpc = "recv" /\ chan # <<>> /\ chan' = Tail(chan) /\ Head(chan).kind # "foreground")
       => UNCHANGED AllButChan]_vars

\* C26 witness: the one notification sent was of an unrecognized kind and has
\* been taken from the channel (a foreground one would be the one in hand).
C26_Witness ==
    /\ sent = 1 /\ chan = <<>> /\ ev = NoEvent /\ lpc = "recv" /\ rx

\* the last instant of the clock in the capture scenario
CaptureEnd == MaxCaptureTicks * TickStep

\* C27: a task that resumes from a capture without an image goes on to record
\* the instant, it does not end; and from there it starts a capture again
\* (unless the clock of the scenario stops first).
C27_FailedCaptureRetried ==
    /\ [][\A i \in 1..Len(tasks) :
            (tasks[i].pc = "woken" /\ tasks[i].img = "none" /\ tasks'[i] # tasks[i])
            => tasks'[i].pc = "record"]_vars
    /\ ((tasks # <<>> /\ tasks[1].pc = "woken" /\ tasks[1].img = "none")
        ~> ((tasks # <<>> /\ tasks[1].pc = "capture") \/ now = CaptureEnd))

\* C27 witness: the capture started at 0 gave no image (no file exists), the
\* instant was recorded, and one interval later the task captures again.
C27_Witness ==
    /\ tasks # <<>> /\ tasks[1].pc = "capture"
    /\ files = <<>> /\ instants[1] = 0 /\ captured[1] = ScreenshotInterval

\* C28: a step that changes the last-capture instant of a window is the
\* record step of a task bound to that window, and it changes the instant of
\* no other window, although both windows belong to one application.
C28_InstantsPerWindow ==
    [][\A w \in Windows :
        instants'[w] # instants[w]
        => /\ \E i \in 1..Len(tasks) :
                tasks[i].hwnd = w /\ tasks[i].pc = "record" /\ tasks'[i].pc = "check"
           /\ instants'[w] = now
           /\ \A v \in Windows \ {w} : instants'[v] = instants[v]]_vars

\* C28 witness: both windows of the application have an instant, and the two
\* differ.
C28_Witness ==
    /\ instants[1] # NoInstant /\ instants[2] # NoInstant
    /\ instants[1] # instants[2]

\* C29: the step of the loop that cancels and restarts is enabled whatever the
\* cancelled task is doing, and every notification in the channel is taken
\* from it, with no assumption that a capture returns or that a task runs.
C29_CancelNeverBlocks ==
    /\ [](lpc = "reconcile" => ENABLED Reconcile)
    /\ ((chan # <<>>) ~> (chan = <<>>))

\* C29 witness: task 1 was cancelled after it had started a capture and
\* before it recorded anything; the loop went on, handled the second
\* notification and emptied the channel.
C29_Witness ==
    /\ lpc = "recv" /\ chan = <<>> /\ Len(appends) = 2
    /\ Len(tasks) = 2 /\ tasks[1].pc = "dead" /\ tasks[1].aborted
    /\ captured[1] # NoInstant /\ instants[1] = NoInstant /\ files = <<>>

\* C30: the mutex of the last-capture map is held only by a task that is
\* running the code of one access (never by a task suspended at an await, a
\* sleeping task or a task that has ended), and its holder can always take
\* the step that releases it.
C30_LockNotHeldAcrossAwait ==
    lock # 0
    => /\ lock \in 1..Len(tasks)
       /\ tasks[lock].pc \in {"check", "remaining", "record"}
       /\ ENABLED (TaskCheck(lock) \/ TaskSleep(lock) \/ TaskRecord(lock))

\* C30 witness: the new task holds the mutex while the cancelled task, still
\* running, is about to write its entry.
C30_Witness ==
    /\ Len(tasks) = 2 /\ lock = 2
    /\ tasks[1].pc = "record" /\ tasks[1].aborted

\* the sequence numbers of the resolve calls that returned
CallSeqs == {calls[i].seq : i \in 1..Len(calls)}

\* C31: the loop never ends and always has a step to take; a step of the loop
\* at its receive either finds the channel empty and suspends (it does not
\* poll again without the sleep) or takes exactly the oldest notification,
\* which for a foreground notification becomes the one in hand; no
\* notification is resolved twice; and, the loop being polled again and again,
\* every notification in the channel is taken and every foreground
\* notification sent is resolved.
C31_EveryNotificationHandledOnce ==
    /\ [](lpc \notin {"panicked", "dropped"} /\ ENABLED LoopStep)
    /\ [](\A i, j \in 1..Len(calls) : calls[i].seq = calls[j].seq => i = j)
    /\ [][(lpc = "recv" /\ lpc' # lpc)
          => \/ chan = <<>> /\ lpc' = "sleep" /\ chan' = chan
             \/ chan # <<>> /\ lpc' = "lookup" /\ chan' = Tail(chan) /\ ev' = Head(chan)]_vars
    /\ [][(lpc = "sleep" /\ lpc' # lpc) => (lpc' = "recv" /\ chan' = chan)]_vars
    /\ [][chan' # chan
          => \/ Len(chan') = Len(chan) + 1 /\ SubSeq(chan', 1, Len(chan)) = chan
             \/ chan # <<>> /\ chan' = Tail(chan) /\ lpc = "recv"]_vars
    /\ ((chan # <<>>) ~> (chan = <<>>))
    /\ \A k \in 1..MaxRegNotifs :
          (\E i \in 1..Len(chan) : chan[i].seq = k /\ chan[i].kind = "foreground")
          ~> (k \in CallSeqs)

\* C31 witness: two foreground notifications were in the channel together;
\* both have been resolved, in the order they were sent, and the loop, the
\* channel empty, is suspended before its next try.
C31_Witness ==
    /\ lpc = "sleep" /\ chan = <<>> /\ sent = 2
    /\ Len(calls) = 2 /\ calls[1].seq = 1 /\ calls[2].seq = 2

\* C32: a task whose sleep has just elapsed finds, at the check that follows,
\* the interval elapsed for its window: it captures, and does not sleep a
\* second time between two captures.
C32_WakeFindsElapsed ==
    \A i \in 1..Len(tasks) :
        (tasks[i].pc = "check" /\ tasks[i].woke) => should_take_screenshot(tasks[i].hwnd)

\* C33: the answer of a command is the answer of its query at the floor of
\* ms/1000, for every input, the negative ones included.
C33_SecondIsFloor ==
    /\ qin.q = "fetch"
       => qev \in get_window_events_secs(events, apps, qin.a \div MsPerSec,
                                         qin.b \div MsPerSec, qin.c)
    /\ qin.q = "nearest_ms"
       => qshot \in {Normalized(sh) :
                        sh \in get_nearest_screenshot(shots, qin.a \div MsPerSec, qin.b)}

\* C34: a task that has resumed from its capture stores the result and then
\* records the instant of its window, in this order and after every capture:
\* from the resume it goes on to store (an image) or to record (no image),
\* from the store to the record with one more file written, and the record
\* writes the present instant; and a capture is started only when the window
\* has no instant or its instant is at least one interval old.
C34_CaptureStoreRecord ==
    [][\A i \in 1..Len(tasks) :
        tasks'[i] # tasks[i]
        => /\ tasks[i].pc = "woken" => tasks'[i].pc \in {"store", "record"}
           /\ tasks[i].pc = "store"
              => tasks'[i].pc = "record" /\ Len(files') = Len(files) + 1
           /\ tasks[i].pc = "record"
              => tasks'[i].pc = "check" /\ instants'[tasks[i].hwnd] = now
           /\ tasks'[i].pc = "capture"
              => \/ instants[tasks[i].hwnd] = NoInstant
                 \/ now - instants[tasks[i].hwnd] >= ScreenshotInterval]_vars

\* C37: the task of the loop's handle is a live task: it has not ended.
C37_HandleTaskIsLive == handle # 0 => tasks[handle].pc # "dead"

\* C35: whenever the loop is back at its receive after a foreground
\* notification, whatever became of the resolve and of the append, the
\* tracked window is the notification's window and the task of the handle
\* is bound to it and is the only task that is not cancelled; and the handling
\* of a notification never ends but through the comparison of windows.
C35_ReconcileWithoutPersistence ==
    /\ []((lpc = "recv" /\ ev # NoEvent)
          => /\ cur = ev.hwnd
             /\ handle # 0
             /\ tasks[handle].hwnd = cur
             /\ \A i \in 1..Len(tasks) : ~tasks[i].aborted <=> i = handle)
    /\ [][(lpc \in Handling /\ lpc' = "recv") => lpc = "reconcile"]_vars

\* C35 witness: the resolve of the second notification, for window 2, failed
\* and no FocusEvent was attempted for it; window 2 is tracked, the task of
\* window 1 is cancelled and a task of window 2 is held.
C35_Witness ==
    /\ lpc = "recv" /\ Len(calls) = 2 /\ ~calls[2].ok /\ Len(appends) = 1
    /\ ev.hwnd = 2 /\ cur = 2 /\ Len(tasks) = 2 /\ handle = 2
    /\ tasks[1].aborted /\ tasks[2].hwnd = 2

\* C36: a lookup that fails goes on to the insert, as a lookup that finds
\* nothing does; an insert attempted for a name that is stored changes no row,
\* ends the resolve with an error for that notification and leads to no
\* append; no name ever has two rows, and no FocusEvent is attempted for a
\* notification whose resolve returned an error.
C36_FailedLookupIsAbsent ==
    /\ [](\A r, q \in apps : r.name = q.name => r = q)
    /\ [](\A i \in 1..Len(calls) :
            ~calls[i].ok => \A k \in 1..Len(appends) : appends[k].seq # calls[i].seq)
    /\ [][(lpc = "lookup" /\ lpc' # lpc /\ found' = NoApp) => lpc' = "insert"]_vars
    /\ [][(lpc = "insert" /\ lpc' # lpc /\ Stored(apps, ev.name) # NoApp)
          => /\ apps' = apps
             /\ lpc' = "reconcile"
             /\ appends' = appends
             /\ Len(calls') = Len(calls) + 1
             /\ calls'[Len(calls')].seq = ev.seq
             /\ ~calls'[Len(calls')].ok]_vars

\* C36 witness: the second notification names a stored application with its
\* stored path; its lookup failed, its insert was rejected, the resolve
\* returned an error, the row is what it was and the only FocusEvent is the
\* first notification's.
C36_Witness ==
    /\ lpc = "recv" /\ Len(calls) = 2
    /\ calls[1].ok /\ ~calls[2].ok
    /\ calls[2].pre # NoApp /\ calls[2].pre.path = calls[2].path
    /\ calls[2].post = calls[2].pre
    /\ Len(appends) = 1 /\ appends[1].seq = calls[1].seq

=============================================================================
